---- MODULE Spec2Model ----
(***************************************************************************)
(* Local Housing Policy Compass (appV3.py / appV4.py).                     *)
(*                                                                         *)
(* The recommendation engine (normalize_inputs, determine_buckets,         *)
(* apply_priority_overlay) and the "Generate Policy Recommendations"       *)
(* button handler that drives it.                                          *)
(*                                                                         *)
(* A text is a sequence of words.  The keywords tested by normalize_inputs *)
(* are single words, none of which is part of another, so Python's         *)
(* `kw in text` is the presence of the word kw in the sequence.            *)
(***************************************************************************)
EXTENDS Integers, Sequences, FiniteSets, TLC

VARIABLES
    authority, capacity, market, challenge,   \* the four raw answers (texts)
    a, c, m, ch,                              \* normalized codes of the run
    base_buckets, note,                       \* result of determine_buckets
    final_buckets, priority_list,             \* result of apply_priority_overlay
    screen,                                   \* what the run rendered
    called,                                   \* engine functions the run invoked, in order
    csv,                                      \* the export record of the run
    prev,                                     \* an earlier submission: its answers and its outcome
    v4                                        \* the run of the appV4.py handler on the same answers

vars == <<authority, capacity, market, challenge, a, c, m, ch,
          base_buckets, note, final_buckets, priority_list,
          screen, called, csv, prev, v4>>

answers == <<authority, capacity, market, challenge>>

----------------------------------------------------------------------------
(* Bounds *)

\* words in the four answers of one call of normalize_inputs, in total
MaxWords == 4
\* length of the bucket list handed to apply_priority_overlay on its own
MaxBuckets == 4

----------------------------------------------------------------------------
(* Category labels and notes *)

FB == "Foundation-Building (FB)"
PS == "Preservation & Stabilization (PS)"
RS == "Regulatory Supply (RS)"
DI == "Development Incentives (DI)"
FA == "Financial Assistance (FA)"
TP == "Tenant Protections (TP)"

Categories == {FB, PS, RS, DI, FA, TP}

\* Financial Assistance listed before Development Incentives
base_order_fa_first == <<FB, PS, RS, FA, DI, TP>>

base_order == <<FB, PS, RS, DI, FA, TP>>

MinimalNote == "Minimal capacity: prioritize low-cost/no-cost foundation-building activities."
WeakNote    == "Weak market: prioritize foundation-building; add preservation if capacity and quality risk exist."
CoreNote    == "Recommendation generated using core logic."

Authorities == {"Strong", "Limited", "Unsure"}
Capacities  == {"Strong", "Moderate", "Minimal"}
Markets     == {"Hot", "Stable", "Weak"}
Challenges  == {"Supply", "Affordability", "Quality", "Multiple"}

\* a variable the run has not assigned
Unset == ""
NoCsv == [produced |-> FALSE]
NoRun == [ran |-> FALSE]

----------------------------------------------------------------------------
(* The radio options of the four questions, word by word *)

AuthorityOptions ==
    << <<"Strong", "Local", "Authority", "(", "Home", "Rule", "-", "broad", "powers", ";",
         "few", "preemptions", ")">>,
       <<"Limited", "Local", "Authority", "(", "Dillon", "Rule", "-", "state", "restricts",
         "key", "areas", ";", "significant", "preemptions", ")">>,
       <<"Unsure">> >>

CapacityOptions ==
    << <<"Strong", "Capacity", "(", "dedicated", "funding", ",", "deep", "staffing", "levels", ")">>,
       <<"Moderate", "Capacity", "(", "limited", "budget", ",", "small", "or", "inexperienced",
         "staff", ")">>,
       <<"Minimal", "Capacity", "(", "near-zero", "budget", ",", "minimal", "staff", ")">> >>

MarketOptions ==
    << <<"Hot", "Market">>,
       <<"Stable", "Market">>,
       <<"Weak", "/", "Declining", "Market">> >>

ChallengeOptions ==
    << <<"Supply", "Shortage">>,
       <<"Affordability", "Crisis">>,
       <<"Housing", "Quality">>,
       <<"Multiple", "Crises">> >>

Range(s) == {s[i] : i \in DOMAIN s}

----------------------------------------------------------------------------
(* Python helpers *)

\* kw in text
Contains(text, kw) == \E i \in DOMAIN text : text[i] = kw

\* x in list
InList(x, list) == \E i \in DOMAIN list : list[i] = x

\* [b for b in order if b in S]
RECURSIVE FilterIn(_, _)
FilterIn(order, S) ==
    IF order = <<>> THEN <<>>
    ELSE IF Head(order) \in S
         THEN <<Head(order)>> \o FilterIn(Tail(order), S)
         ELSE FilterIn(Tail(order), S)

\* The six labels in ascending order of Python's string comparison
\* ("Fina..." < "Foun..." because "i" < "o").
label_order == <<DI, FA, FB, PS, RS, TP>>

\* the sort runs in descending order
sorted_descending(S) == FilterIn(<<TP, RS, PS, FB, FA, DI>>, S)

\* sorted(S) for a set S of labels
sorted(S) == FilterIn(label_order, S)

\* the loop appends without the membership test
RECURSIVE AppendNew_all(_, _)
AppendNew_all(acc, items) ==
    IF items = <<>> THEN acc
    ELSE AppendNew_all(Append(acc, Head(items)), Tail(items))

\* for x in items: if x not in acc: acc.append(x)
RECURSIVE AppendNew(_, _)
AppendNew(acc, items) ==
    IF items = <<>> THEN acc
    ELSE AppendNew(IF InList(Head(items), acc) THEN acc ELSE Append(acc, Head(items)),
                   Tail(items))

\* sep.join(list)
RECURSIVE Join(_, _)
Join(list, sep) ==
    IF list = <<>> THEN ""
    ELSE IF Len(list) = 1 THEN list[1]
    ELSE list[1] \o sep \o Join(Tail(list), sep)

----------------------------------------------------------------------------
(* Core logic functions *)

\* every field tests its keywords in the opposite order
normalize_inputs_reversed(authority_, capacity_, market_, challenge_) ==
    LET a_  == IF Contains(authority_, "Limited") THEN "Limited"
               ELSE IF Contains(authority_, "Unsure") THEN "Unsure" ELSE "Strong"
        c_  == IF Contains(capacity_, "Moderate") THEN "Moderate"
               ELSE IF Contains(capacity_, "Minimal") THEN "Minimal" ELSE "Strong"
        m_  == IF Contains(market_, "Stable") THEN "Stable"
               ELSE IF Contains(market_, "Weak") THEN "Weak" ELSE "Hot"
        ch_ == IF Contains(challenge_, "Affordability") THEN "Affordability"
               ELSE IF Contains(challenge_, "Quality") THEN "Quality"
               ELSE IF Contains(challenge_, "Multiple") THEN "Multiple"
               ELSE "Supply"
    IN  <<a_, c_, m_, ch_>>

normalize_inputs(authority_, capacity_, market_, challenge_) ==
    LET a_  == IF Contains(authority_, "Unsure") THEN "Unsure"
               ELSE IF Contains(authority_, "Limited") THEN "Limited" ELSE "Strong"
        c_  == IF Contains(capacity_, "Minimal") THEN "Minimal"
               ELSE IF Contains(capacity_, "Moderate") THEN "Moderate" ELSE "Strong"
        m_  == IF Contains(market_, "Weak") THEN "Weak"
               ELSE IF Contains(market_, "Stable") THEN "Stable" ELSE "Hot"
        ch_ == IF Contains(challenge_, "Multiple") THEN "Multiple"
               ELSE IF Contains(challenge_, "Quality") THEN "Quality"
               ELSE IF Contains(challenge_, "Affordability") THEN "Affordability"
               ELSE "Supply"
    IN  <<a_, c_, m_, ch_>>

\* the Quality rule guards Regulatory Supply with `not limited_authority`
ChallengeRules_quality_guard(authority_, capacity_, challenge_) ==
    LET limited_authority == (authority_ = "Limited")
    IN  IF challenge_ = "Supply"
        THEN IF limited_authority THEN {DI} ELSE {RS, DI}
        ELSE IF challenge_ = "Affordability"
        THEN {FA} \cup (IF authority_ = "Strong" THEN {TP} ELSE {})
                  \cup (IF ~limited_authority THEN {RS} ELSE {}) \cup {DI}
        ELSE IF challenge_ = "Quality"
        THEN {PS} \cup (IF ~limited_authority THEN {RS} ELSE {}) \cup {DI}
        ELSE IF challenge_ = "Multiple"
        THEN (IF capacity_ \in {"Moderate", "Strong"} THEN {PS} ELSE {})
             \cup {FA} \cup (IF authority_ = "Strong" THEN {RS, DI, TP} ELSE {DI})
        ELSE {}

\* the Supply rule adds Regulatory Supply without looking at limited_authority
ChallengeRules_supply_unguarded(authority_, capacity_, challenge_) ==
    LET limited_authority == (authority_ = "Limited")
    IN  IF challenge_ = "Supply"
        THEN {RS, DI}
        ELSE IF challenge_ = "Affordability"
        THEN {FA} \cup (IF authority_ = "Strong" THEN {TP} ELSE {})
                  \cup (IF ~limited_authority THEN {RS} ELSE {}) \cup {DI}
        ELSE IF challenge_ = "Quality"
        THEN {PS} \cup (IF authority_ = "Strong" THEN {RS} ELSE {}) \cup {DI}
        ELSE IF challenge_ = "Multiple"
        THEN (IF capacity_ \in {"Moderate", "Strong"} THEN {PS} ELSE {})
             \cup {FA} \cup (IF authority_ = "Strong" THEN {RS, DI, TP} ELSE {DI})
        ELSE {}

\* the Multiple rule has no else branch: Development Incentives only with Strong authority
ChallengeRules_multiple_no_else(authority_, capacity_, challenge_) ==
    LET limited_authority == (authority_ = "Limited")
    IN  IF challenge_ = "Supply"
        THEN IF limited_authority THEN {DI} ELSE {RS, DI}
        ELSE IF challenge_ = "Affordability"
        THEN {FA} \cup (IF authority_ = "Strong" THEN {TP} ELSE {})
                  \cup (IF ~limited_authority THEN {RS} ELSE {}) \cup {DI}
        ELSE IF challenge_ = "Quality"
        THEN {PS} \cup (IF authority_ = "Strong" THEN {RS} ELSE {}) \cup {DI}
        ELSE IF challenge_ = "Multiple"
        THEN (IF capacity_ \in {"Moderate", "Strong"} THEN {PS} ELSE {})
             \cup {FA} \cup (IF authority_ = "Strong" THEN {RS, DI, TP} ELSE {})
        ELSE {}

\* the challenge-specific rules of determine_buckets: the set it builds
ChallengeRules(authority_, capacity_, challenge_) ==
    LET limited_authority == (authority_ = "Limited")
        supply ==
            IF challenge_ = "Supply"
            THEN IF limited_authority THEN {DI} ELSE {RS, DI}
            ELSE {}
        affordability ==
            IF challenge_ = "Affordability"
            THEN {FA}
                 \cup (IF authority_ = "Strong" THEN {TP} ELSE {})
                 \cup (IF ~limited_authority THEN {RS} ELSE {})
                 \cup {DI}
            ELSE {}
        quality ==
            IF challenge_ = "Quality"
            THEN {PS}
                 \cup (IF authority_ = "Strong" THEN {RS} ELSE {})
                 \cup {DI}
            ELSE {}
        multiple ==
            IF challenge_ = "Multiple"
            THEN (IF capacity_ \in {"Moderate", "Strong"} THEN {PS} ELSE {})
                 \cup {FA}
                 \cup (IF authority_ = "Strong" THEN {RS, DI, TP} ELSE {DI})
            ELSE {}
    IN  supply \cup affordability \cup quality \cup multiple

\* the weak-market test comes before the minimal-capacity override
determine_buckets_weak_first(authority_, capacity_, market_, challenge_) ==
    IF market_ = "Weak"
    THEN << sorted({FB} \cup (IF capacity_ \in {"Moderate", "Strong"}
                                 /\ challenge_ \in {"Quality", "Multiple"}
                              THEN {PS} ELSE {})),
            WeakNote >>
    ELSE IF capacity_ = "Minimal"
    THEN << <<FB>>, MinimalNote >>
    ELSE << FilterIn(base_order, ChallengeRules(authority_, capacity_, challenge_)),
            CoreNote >>

\* the weak-market condition joins its two tests with `or`
determine_buckets_weak_or(authority_, capacity_, market_, challenge_) ==
    IF capacity_ = "Minimal"
    THEN << <<FB>>, MinimalNote >>
    ELSE IF market_ = "Weak"
    THEN << sorted({FB} \cup (IF capacity_ \in {"Moderate", "Strong"}
                                 \/ challenge_ \in {"Quality", "Multiple"}
                              THEN {PS} ELSE {})),
            WeakNote >>
    ELSE << FilterIn(base_order, ChallengeRules(authority_, capacity_, challenge_)),
            CoreNote >>

\* returns <<ordered list, note>>
determine_buckets(authority_, capacity_, market_, challenge_) ==
    IF capacity_ = "Minimal"
    THEN << <<FB>>, MinimalNote >>
    ELSE IF market_ = "Weak"
    THEN << sorted({FB} \cup (IF capacity_ \in {"Moderate", "Strong"}
                                 /\ challenge_ \in {"Quality", "Multiple"}
                              THEN {PS} ELSE {})),
            WeakNote >>
    ELSE << FilterIn(base_order, ChallengeRules(authority_, capacity_, challenge_)),
            CoreNote >>

\* priority_order is not reset between calls: it starts from the last call's list
PriorityOrder_stale(challenge_code, buckets) ==
    LET bucket_set == Range(buckets)
    IN  priority_list \o
        (IF challenge_code = "Affordability"
         THEN (IF FA \in bucket_set THEN <<FA>> ELSE <<>>)
              \o (IF TP \in bucket_set THEN <<TP>> ELSE <<>>)
         ELSE IF challenge_code = "Supply"
         THEN (IF RS \in bucket_set THEN <<RS>> ELSE <<>>)
              \o (IF DI \in bucket_set THEN <<DI>> ELSE <<>>)
         ELSE <<>>)

\* a further branch gives the Quality challenge a priority of its own
PriorityOrder_quality(challenge_code, buckets) ==
    LET bucket_set == Range(buckets)
    IN  IF challenge_code = "Affordability"
        THEN (IF FA \in bucket_set THEN <<FA>> ELSE <<>>)
             \o (IF TP \in bucket_set THEN <<TP>> ELSE <<>>)
        ELSE IF challenge_code = "Supply"
        THEN (IF RS \in bucket_set THEN <<RS>> ELSE <<>>)
             \o (IF DI \in bucket_set THEN <<DI>> ELSE <<>>)
        ELSE IF challenge_code = "Quality"
        THEN (IF PS \in bucket_set THEN <<PS>> ELSE <<>>)
        ELSE <<>>

\* the priority categories are appended without testing that they are in the buckets
PriorityOrder_unchecked(challenge_code, buckets) ==
    IF challenge_code = "Affordability" THEN <<FA, TP>>
    ELSE IF challenge_code = "Supply" THEN <<RS, DI>>
    ELSE <<>>

\* the priority_order list apply_priority_overlay builds
PriorityOrder(challenge_code, buckets) ==
    LET bucket_set == Range(buckets)
    IN  IF challenge_code = "Affordability"
        THEN (IF FA \in bucket_set THEN <<FA>> ELSE <<>>)
             \o (IF TP \in bucket_set THEN <<TP>> ELSE <<>>)
        ELSE IF challenge_code = "Supply"
        THEN (IF RS \in bucket_set THEN <<RS>> ELSE <<>>)
             \o (IF DI \in bucket_set THEN <<DI>> ELSE <<>>)
        ELSE <<>>

\* the two loops run in the opposite order: buckets first, priorities after
apply_priority_overlay_buckets_first(challenge_code, buckets) ==
    LET priority_order == PriorityOrder(challenge_code, buckets)
        final_order    == AppendNew(AppendNew(<<>>, buckets), priority_order)
    IN  <<final_order, priority_order>>

\* returns <<final_order, priority_order>>
apply_priority_overlay(challenge_code, buckets) ==
    LET priority_order == PriorityOrder(challenge_code, buckets)
        final_order    == AppendNew(AppendNew(<<>>, priority_order), buckets)
    IN  <<final_order, priority_order>>

----------------------------------------------------------------------------
(* The application: four radio questions and the Generate button *)

\* what a run leaves behind, as far as a later comparison is concerned
Outcome ==
    [a |-> a, c |-> c, m |-> m, ch |-> ch,
     base_buckets |-> base_buckets, note |-> note,
     final_buckets |-> final_buckets, priority_list |-> priority_list,
     screen |-> screen, csv |-> csv]

\* a run of the script in which the button was not clicked renders the
\* questions only and assigns none of the engine's variables
Rerun ==
    /\ a' = Unset /\ c' = Unset /\ m' = Unset /\ ch' = Unset
    /\ base_buckets' = <<>> /\ note' = Unset
    /\ final_buckets' = <<>> /\ priority_list' = <<>>
    /\ screen' = "questions"
    /\ called' = <<>>
    /\ csv' = NoCsv
    /\ UNCHANGED v4

\* a finished submission may be kept for comparison with a later one
Remember ==
    \/ UNCHANGED prev
    \/ /\ screen # "questions"
       /\ prev' = [ran |-> TRUE, answers |-> answers, outcome |-> Outcome]

SelectAuthority ==
    \E i \in DOMAIN AuthorityOptions :
        /\ AuthorityOptions[i] # authority
        /\ authority' = AuthorityOptions[i]
        /\ UNCHANGED <<capacity, market, challenge>>
        /\ Rerun /\ Remember

SelectCapacity ==
    \E i \in DOMAIN CapacityOptions :
        /\ CapacityOptions[i] # capacity
        /\ capacity' = CapacityOptions[i]
        /\ UNCHANGED <<authority, market, challenge>>
        /\ Rerun /\ Remember

SelectMarket ==
    \E i \in DOMAIN MarketOptions :
        /\ MarketOptions[i] # market
        /\ market' = MarketOptions[i]
        /\ UNCHANGED <<authority, capacity, challenge>>
        /\ Rerun /\ Remember

SelectChallenge ==
    \E i \in DOMAIN ChallengeOptions :
        /\ ChallengeOptions[i] # challenge
        /\ challenge' = ChallengeOptions[i]
        /\ UNCHANGED <<authority, capacity, market>>
        /\ Rerun /\ Remember

\* the guard compares with the wrong spelling and never halts
UnresolvedAuthority_unsure(a_) == a_ = "unsure"

\* if a == "Unsure": st.warning(...); st.stop()
UnresolvedAuthority(a_) == a_ = "Unsure"

\* if st.button("Generate Policy Recommendations"):
Generate ==
    LET n  == normalize_inputs(authority, capacity, market, challenge)
        d  == determine_buckets(n[1], n[2], n[3], n[4])
        o  == apply_priority_overlay(n[4], d[1])
    IN  /\ a' = n[1] /\ c' = n[2] /\ m' = n[3] /\ ch' = n[4]
        /\ IF UnresolvedAuthority(n[1])
           THEN /\ screen' = "warning"
                /\ called' = <<"normalize_inputs">>
                /\ base_buckets' = <<>> /\ note' = Unset
                /\ final_buckets' = <<>> /\ priority_list' = <<>>
                /\ csv' = NoCsv
           ELSE /\ base_buckets' = d[1] /\ note' = d[2]
                /\ final_buckets' = o[1] /\ priority_list' = o[2]
                /\ screen' = "success"
                /\ called' = <<"normalize_inputs", "determine_buckets",
                               "apply_priority_overlay">>
                /\ csv' = [produced |-> TRUE,
                           authority |-> n[1], capacity |-> n[2],
                           market |-> n[3], challenge |-> n[4],
                           recommendations |-> Join(o[1], "; "),
                           priority_order |-> Join(o[2], "; "),
                           note |-> d[2]]
        /\ UNCHANGED <<authority, capacity, market, challenge, v4>>
        /\ Remember

Init ==
    /\ authority = AuthorityOptions[1]
    /\ capacity = CapacityOptions[1]
    /\ market = MarketOptions[1]
    /\ challenge = ChallengeOptions[1]
    /\ a = Unset /\ c = Unset /\ m = Unset /\ ch = Unset
    /\ base_buckets = <<>> /\ note = Unset
    /\ final_buckets = <<>> /\ priority_list = <<>>
    /\ screen = "questions"
    /\ called = <<>>
    /\ csv = NoCsv
    /\ prev = NoRun
    /\ v4 = NoRun

Next ==
    \/ SelectAuthority
    \/ SelectCapacity
    \/ SelectMarket
    \/ SelectChallenge
    \/ Generate

Spec == Init /\ [][Next]_vars

----------------------------------------------------------------------------
(* normalize_inputs on its own, over free text *)

AuthorityWords == {"Unsure", "Limited", "Strong"}
CapacityWords  == {"Minimal", "Moderate", "Strong"}
MarketWords    == {"Weak", "Stable", "Hot"}
ChallengeWords == {"Multiple", "Quality", "Affordability", "Supply"}

Idle ==
    /\ base_buckets = <<>> /\ note = Unset
    /\ final_buckets = <<>> /\ priority_list = <<>>
    /\ screen = "questions"
    /\ called = <<>>
    /\ csv = NoCsv
    /\ prev = NoRun
    /\ v4 = NoRun

NormalizeInit ==
    /\ \E l1 \in 0..MaxWords : \E l2 \in 0..(MaxWords - l1) :
       \E l3 \in 0..(MaxWords - l1 - l2) : \E l4 \in 0..(MaxWords - l1 - l2 - l3) :
          /\ authority \in [1..l1 -> AuthorityWords]
          /\ capacity \in [1..l2 -> CapacityWords]
          /\ market \in [1..l3 -> MarketWords]
          /\ challenge \in [1..l4 -> ChallengeWords]
    /\ a = Unset /\ c = Unset /\ m = Unset /\ ch = Unset
    /\ Idle

Normalize ==
    LET n == normalize_inputs(authority, capacity, market, challenge)
    IN  /\ called = <<>>
        /\ a' = n[1] /\ c' = n[2] /\ m' = n[3] /\ ch' = n[4]
        /\ called' = <<"normalize_inputs">>
        /\ UNCHANGED <<authority, capacity, market, challenge, base_buckets, note,
                       final_buckets, priority_list, screen, csv, prev, v4>>

NormalizeNext == Normalize

SpecNormalize == NormalizeInit /\ [][NormalizeNext]_vars

----------------------------------------------------------------------------
(* determine_buckets and apply_priority_overlay on every normalized tuple *)

NoAnswers ==
    /\ authority = <<>> /\ capacity = <<>> /\ market = <<>> /\ challenge = <<>>

EngineInit ==
    /\ NoAnswers
    /\ a \in Authorities /\ c \in Capacities /\ m \in Markets /\ ch \in Challenges
    /\ Idle

Determine ==
    LET d == determine_buckets(a, c, m, ch)
    IN  /\ called = <<>>
        /\ base_buckets' = d[1] /\ note' = d[2]
        /\ called' = <<"determine_buckets">>
        /\ UNCHANGED <<authority, capacity, market, challenge, a, c, m, ch,
                       final_buckets, priority_list, screen, csv, prev, v4>>

Prioritize ==
    LET o == apply_priority_overlay(ch, base_buckets)
    IN  /\ called = <<"determine_buckets">>
        /\ final_buckets' = o[1] /\ priority_list' = o[2]
        /\ called' = <<"determine_buckets", "apply_priority_overlay">>
        /\ UNCHANGED <<authority, capacity, market, challenge, a, c, m, ch,
                       base_buckets, note, screen, csv, prev, v4>>

EngineNext == Determine \/ Prioritize

SpecEngine == EngineInit /\ [][EngineNext]_vars

----------------------------------------------------------------------------
(* apply_priority_overlay on its own, over any list of categories *)

OverlayInit ==
    /\ NoAnswers
    /\ a = Unset /\ c = Unset /\ m = Unset
    /\ ch \in Challenges
    /\ \E k \in 0..MaxBuckets : base_buckets \in [1..k -> Categories]
    /\ note = Unset
    /\ final_buckets = <<>> /\ priority_list = <<>>
    /\ screen = "questions"
    /\ called = <<>>
    /\ csv = NoCsv
    /\ prev = NoRun
    /\ v4 = NoRun

ApplyOverlay ==
    LET o == apply_priority_overlay(ch, base_buckets)
    IN  /\ called = <<>>
        /\ final_buckets' = o[1] /\ priority_list' = o[2]
        /\ called' = <<"apply_priority_overlay">>
        /\ UNCHANGED <<authority, capacity, market, challenge, a, c, m, ch,
                       base_buckets, note, screen, csv, prev, v4>>

OverlayNext == ApplyOverlay

SpecOverlay == OverlayInit /\ [][OverlayNext]_vars

----------------------------------------------------------------------------
(* The engine embedded in appV4.py and its button handler *)

normalize_inputs_v4(authority_, capacity_, market_, challenge_) ==
    LET a_  == IF Contains(authority_, "Unsure") THEN "Unsure"
               ELSE IF Contains(authority_, "Limited") THEN "Limited" ELSE "Strong"
        c_  == IF Contains(capacity_, "Minimal") THEN "Minimal"
               ELSE IF Contains(capacity_, "Moderate") THEN "Moderate" ELSE "Strong"
        m_  == IF Contains(market_, "Weak") THEN "Weak"
               ELSE IF Contains(market_, "Stable") THEN "Stable" ELSE "Hot"
        ch_ == IF Contains(challenge_, "Multiple") THEN "Multiple"
               ELSE IF Contains(challenge_, "Quality") THEN "Quality"
               ELSE IF Contains(challenge_, "Affordability") THEN "Affordability"
               ELSE "Supply"
    IN  <<a_, c_, m_, ch_>>

\* the Supply rule adds Regulatory Supply without looking at limited_authority
ChallengeRules_v4_supply(authority_, capacity_, challenge_) ==
    LET limited_authority == (authority_ = "Limited")
    IN  IF challenge_ = "Supply"
        THEN {RS, DI}
        ELSE IF challenge_ = "Affordability"
        THEN {FA} \cup (IF authority_ = "Strong" THEN {TP} ELSE {})
                  \cup (IF ~limited_authority THEN {RS} ELSE {}) \cup {DI}
        ELSE IF challenge_ = "Quality"
        THEN {PS} \cup (IF authority_ = "Strong" THEN {RS} ELSE {}) \cup {DI}
        ELSE IF challenge_ = "Multiple"
        THEN (IF capacity_ \in {"Moderate", "Strong"} THEN {PS} ELSE {})
             \cup {FA} \cup (IF authority_ = "Strong" THEN {RS, DI, TP} ELSE {DI})
        ELSE {}

ChallengeRules_v4(authority_, capacity_, challenge_) ==
    LET limited_authority == (authority_ = "Limited")
        supply ==
            IF challenge_ = "Supply"
            THEN IF limited_authority THEN {DI} ELSE {RS, DI}
            ELSE {}
        affordability ==
            IF challenge_ = "Affordability"
            THEN {FA}
                 \cup (IF authority_ = "Strong" THEN {TP} ELSE {})
                 \cup (IF ~limited_authority THEN {RS} ELSE {})
                 \cup {DI}
            ELSE {}
        quality ==
            IF challenge_ = "Quality"
            THEN {PS}
                 \cup (IF authority_ = "Strong" THEN {RS} ELSE {})
                 \cup {DI}
            ELSE {}
        multiple ==
            IF challenge_ = "Multiple"
            THEN (IF capacity_ \in {"Moderate", "Strong"} THEN {PS} ELSE {})
                 \cup {FA}
                 \cup (IF authority_ = "Strong" THEN {RS, DI, TP} ELSE {DI})
            ELSE {}
    IN  supply \cup affordability \cup quality \cup multiple

base_order_v4 == <<FB, PS, RS, DI, FA, TP>>

determine_buckets_v4(authority_, capacity_, market_, challenge_) ==
    IF capacity_ = "Minimal"
    THEN << <<FB>>, "Minimal capacity: prioritize low-cost/no-cost foundation-building activities." >>
    ELSE IF market_ = "Weak"
    THEN << sorted({FB} \cup (IF capacity_ \in {"Moderate", "Strong"}
                                 /\ challenge_ \in {"Quality", "Multiple"}
                              THEN {PS} ELSE {})),
            "Weak market: prioritize foundation-building; add preservation if capacity and quality risk exist." >>
    ELSE << FilterIn(base_order_v4, ChallengeRules_v4(authority_, capacity_, challenge_)),
            "Recommendation generated using core logic." >>

apply_priority_overlay_v4(challenge_code, buckets) ==
    LET bucket_set == Range(buckets)
        priority_order ==
            IF challenge_code = "Affordability"
            THEN (IF FA \in bucket_set THEN <<FA>> ELSE <<>>)
                 \o (IF TP \in bucket_set THEN <<TP>> ELSE <<>>)
            ELSE IF challenge_code = "Supply"
            THEN (IF RS \in bucket_set THEN <<RS>> ELSE <<>>)
                 \o (IF DI \in bucket_set THEN <<DI>> ELSE <<>>)
            ELSE <<>>
        final_order == AppendNew(AppendNew(<<>>, priority_order), buckets)
    IN  <<final_order, priority_order>>

\* if st.button("Generate Policy Recommendations"): on the Policy Assessment
\* Tool page, the page the sidebar selects by default
GenerateV4 ==
    LET n == normalize_inputs_v4(authority, capacity, market, challenge)
        d == determine_buckets_v4(n[1], n[2], n[3], n[4])
        o == apply_priority_overlay_v4(n[4], d[1])
    IN  /\ v4' = IF n[1] = "Unsure"
                 THEN [ran |-> TRUE, a |-> n[1], c |-> n[2], m |-> n[3], ch |-> n[4],
                       base_buckets |-> <<>>, note |-> Unset,
                       final_buckets |-> <<>>, priority_list |-> <<>>,
                       screen |-> "warning"]
                 ELSE [ran |-> TRUE, a |-> n[1], c |-> n[2], m |-> n[3], ch |-> n[4],
                       base_buckets |-> d[1], note |-> d[2],
                       final_buckets |-> o[1], priority_list |-> o[2],
                       screen |-> "success"]
        /\ UNCHANGED <<authority, capacity, market, challenge, a, c, m, ch,
                       base_buckets, note, final_buckets, priority_list,
                       screen, called, csv, prev>>

\* both variants are given the same four answers, over free text
VariantsInit == NormalizeInit

VariantsNext == Generate \/ GenerateV4

SpecVariants == VariantsInit /\ [][VariantsNext]_vars


----------------------------------------------------------------------------
(* Vocabulary of the properties *)

NoDuplicates(list) ==
    \A i, j \in DOMAIN list : list[i] = list[j] => i = j

Occurrences(x, list) == Cardinality({i \in DOMAIN list : list[i] = x})

\* the same multiset
IsPermutation(s, t) ==
    /\ Len(s) = Len(t)
    /\ \A x \in Range(s) \cup Range(t) : Occurrences(x, s) = Occurrences(x, t)

\* s is t with some elements left out
RECURSIVE IsSubsequence(_, _)
IsSubsequence(s, t) ==
    IF s = <<>> THEN TRUE
    ELSE IF t = <<>> THEN FALSE
    ELSE IF Head(s) = Head(t) THEN IsSubsequence(Tail(s), Tail(t))
    ELSE IsSubsequence(s, Tail(t))

Determined  == Len(called) >= 1 /\ called[1] = "determine_buckets"
Prioritized == called = <<"determine_buckets", "apply_priority_overlay">>
Submitted   == screen # "questions"

----------------------------------------------------------------------------
(* C1: a submission whose authority normalizes to Unsure halts with the    *)
(* warning before determine_buckets: neither determine_buckets nor         *)
(* apply_priority_overlay is called, and no recommendation list, priority  *)
(* list, note or export record is produced, whatever the other answers.    *)
C1_UnsureHalts ==
    (Submitted /\ a = "Unsure") =>
        /\ screen = "warning"
        /\ called = <<"normalize_inputs">>
        /\ base_buckets = <<>> /\ final_buckets = <<>> /\ priority_list = <<>>
        /\ note = Unset
        /\ csv = NoCsv

C1_Witness ==
    /\ screen = "warning" /\ a = "Unsure"
    /\ c = "Moderate" /\ m = "Stable" /\ ch = "Affordability"

(* C2: for each of the 72 normalized tuples with Authority Strong or       *)
(* Limited, determine_buckets followed by apply_priority_overlay returns a *)
(* final_order that is non-empty and has no category twice.                *)
C2_Total ==
    (a \in {"Strong", "Limited"} /\ Prioritized) =>
        /\ final_buckets # <<>>
        /\ NoDuplicates(final_buckets)
        /\ Range(final_buckets) \subseteq Categories

C2_Witness ==
    /\ Prioritized /\ a = "Strong" /\ ch = "Supply"
    /\ priority_list = <<RS, DI>> /\ final_buckets = <<RS, DI>>

(* C3: with Capacity = Minimal, for every Authority (Unsure included),     *)
(* Market and Challenge, determine_buckets returns exactly                 *)
(* [Foundation-Building] with the minimal-capacity note, and the overlay   *)
(* returns final_order = [Foundation-Building] and priority_list = [].     *)
C3_MinimalCapacity ==
    c = "Minimal" =>
        /\ Determined => (base_buckets = <<FB>> /\ note = MinimalNote)
        /\ Prioritized => (final_buckets = <<FB>> /\ priority_list = <<>>)

C3_Witness ==
    /\ Prioritized /\ c = "Minimal" /\ m = "Weak" /\ ch = "Affordability" /\ a = "Unsure"
    /\ final_buckets = <<FB>>

(* C4: with Capacity not Minimal and Market = Weak, for every Authority    *)
(* and Challenge, the output of determine_buckets contains                 *)
(* Foundation-Building, contains Preservation & Stabilization iff Capacity *)
(* is Moderate or Strong and Challenge is Quality or Multiple, contains    *)
(* nothing else, and carries the weak-market note.                         *)
C4_WeakMarket ==
    (c # "Minimal" /\ m = "Weak" /\ Determined) =>
        /\ FB \in Range(base_buckets)
        /\ PS \in Range(base_buckets)
              <=> (c \in {"Moderate", "Strong"} /\ ch \in {"Quality", "Multiple"})
        /\ Range(base_buckets) \subseteq {FB, PS}
        /\ note = WeakNote

C4_Witness ==
    /\ Determined /\ c = "Moderate" /\ m = "Weak" /\ ch = "Quality"
    /\ base_buckets = <<FB, PS>>

(* C5: in every submission that reaches determine_buckets, priority_list   *)
(* is a sub-sequence of final_order in the same relative order, and        *)
(* final_order is a permutation of the base list of determine_buckets.     *)
C5_PrioritySubset ==
    screen = "success" =>
        /\ IsSubsequence(priority_list, final_buckets)
        /\ Range(priority_list) \subseteq Range(final_buckets)
        /\ IsPermutation(final_buckets, base_buckets)

C5_Witness ==
    /\ screen = "success"
    /\ priority_list = <<FA, TP>>
    /\ base_buckets = <<RS, DI, FA, TP>>
    /\ final_buckets = <<FA, TP, RS, DI>>

(* C6 as stated: for every challenge code and every list of categories     *)
(* passed as buckets, final_order is priority_list followed by every       *)
(* element of buckets that is not in priority_list, in buckets' order, and *)
(* final_order is a permutation of buckets (the same multiset).            *)
Remainder(buckets, priority) ==
    LET NotPriority(b) == ~InList(b, priority)
    IN  SelectSeq(buckets, NotPriority)

C6_AsStated ==
    called = <<"apply_priority_overlay">> =>
        /\ final_buckets = priority_list \o Remainder(base_buckets, priority_list)
        /\ IsPermutation(final_buckets, base_buckets)

\* the list without the later occurrences of a repeated element
RECURSIVE FirstOccurrences(_)
FirstOccurrences(list) ==
    IF list = <<>> THEN <<>>
    ELSE LET front == SubSeq(list, 1, Len(list) - 1)
             last  == list[Len(list)]
         IN  IF InList(last, front) THEN FirstOccurrences(front)
             ELSE Append(FirstOccurrences(front), last)

(* C6 amended: for every challenge code and every list of categories       *)
(* passed as buckets, final_order is priority_list followed by the first   *)
(* occurrence of every category of buckets that is not in priority_list,   *)
(* in buckets' order; it has no category twice and the same set of         *)
(* categories as buckets.  When buckets has no category twice, final_order *)
(* is priority_list followed by every element of buckets not in            *)
(* priority_list and is a permutation of buckets.                          *)
C6_Overlay ==
    called = <<"apply_priority_overlay">> =>
        /\ final_buckets
              = priority_list \o FirstOccurrences(Remainder(base_buckets, priority_list))
        /\ NoDuplicates(final_buckets)
        /\ Range(final_buckets) = Range(base_buckets)
        /\ NoDuplicates(base_buckets) =>
              /\ final_buckets = priority_list \o Remainder(base_buckets, priority_list)
              /\ IsPermutation(final_buckets, base_buckets)

C6_Witness ==
    /\ called = <<"apply_priority_overlay">>
    /\ ch = "Affordability"
    /\ base_buckets = <<TP, DI, FA>>
    /\ priority_list = <<FA, TP>>
    /\ final_buckets = <<FA, TP, DI>>

\* the result of the first keyword of a precedence list found in the text
FirstMatch(text, keywords, default) ==
    IF \E i \in DOMAIN keywords : Contains(text, keywords[i])
    THEN keywords[CHOOSE i \in DOMAIN keywords :
                      /\ Contains(text, keywords[i])
                      /\ \A j \in 1..(i - 1) : ~Contains(text, keywords[j])]
    ELSE default

(* C7: normalize_inputs classifies each answer by the first keyword of its *)
(* precedence list that the text contains and falls back to the default:   *)
(* Unsure, Limited, else Strong; Minimal, Moderate, else Strong; Weak,     *)
(* Stable, else Hot; Multiple, Quality, Affordability, else Supply; for    *)
(* texts with several keywords, one or none.                               *)
C7_Normalize ==
    called = <<"normalize_inputs">> =>
        /\ a = FirstMatch(authority, <<"Unsure", "Limited">>, "Strong")
        /\ c = FirstMatch(capacity, <<"Minimal", "Moderate">>, "Strong")
        /\ m = FirstMatch(market, <<"Weak", "Stable">>, "Hot")
        /\ ch = FirstMatch(challenge, <<"Multiple", "Quality", "Affordability">>, "Supply")

C7_Witness ==
    /\ called = <<"normalize_inputs">>
    /\ challenge = <<"Affordability", "Quality", "Multiple">> /\ ch = "Multiple"
    /\ authority = <<>> /\ a = "Strong"
    /\ capacity = <<"Strong">> /\ c = "Strong"

Canonical == <<FB, PS, RS, DI, FA, TP>>
Position(x) == CHOOSE i \in DOMAIN Canonical : Canonical[i] = x
InCanonicalOrder(list) ==
    \A i, j \in DOMAIN list : i < j => Position(list[i]) < Position(list[j])

\* the rule table of the general case, category by category
RuleTable(x) ==
    CASE ch = "Supply" ->
            IF a = "Limited" THEN x = DI ELSE x \in {RS, DI}
      [] ch = "Affordability" ->
            \/ x \in {FA, DI}
            \/ x = TP /\ a = "Strong"
            \/ x = RS /\ a # "Limited"
      [] ch = "Quality" ->
            \/ x \in {PS, DI}
            \/ x = RS /\ a = "Strong"
      [] ch = "Multiple" ->
            \/ x = FA
            \/ x = PS /\ c \in {"Moderate", "Strong"}
            \/ IF a = "Strong" THEN x \in {RS, DI, TP} ELSE x = DI

(* C8: with Capacity not Minimal and Market not Weak, for every Authority  *)
(* (Unsure included), determine_buckets returns exactly the categories of  *)
(* the challenge-keyed rule table, in the canonical order                  *)
(* [FB, PS, RS, DI, FA, TP], with the core-logic note.                     *)
C8_GeneralCase ==
    (c # "Minimal" /\ m # "Weak" /\ Determined) =>
        /\ \A x \in Categories : x \in Range(base_buckets) <=> RuleTable(x)
        /\ InCanonicalOrder(base_buckets)
        /\ note = CoreNote

C8_Witness ==
    /\ Determined /\ a = "Unsure" /\ c = "Moderate" /\ m = "Hot" /\ ch = "Affordability"
    /\ base_buckets = <<RS, DI, FA>>

(* C9: answers that contain "Limited", "Moderate", "Stable" and            *)
(* "Affordability" normalize to (Limited, Moderate, Stable,                *)
(* Affordability); the base buckets are [DI, FA], priority_list is [FA]    *)
(* and final_order is [FA, DI].                                            *)
C9_Scenario2 ==
    ( /\ Submitted
      /\ Contains(authority, "Limited") /\ Contains(capacity, "Moderate")
      /\ Contains(market, "Stable") /\ Contains(challenge, "Affordability") ) =>
        /\ <<a, c, m, ch>> = <<"Limited", "Moderate", "Stable", "Affordability">>
        /\ base_buckets = <<DI, FA>>
        /\ priority_list = <<FA>>
        /\ final_buckets = <<FA, DI>>

C9_Witness ==
    /\ screen = "success"
    /\ authority = AuthorityOptions[2] /\ capacity = CapacityOptions[2]
    /\ market = MarketOptions[2] /\ challenge = ChallengeOptions[2]
    /\ final_buckets = <<FA, DI>>

C11_CanonicalOrder ==
    /\ Determined => InCanonicalOrder(base_buckets)
    /\ Prioritized =>
          /\ InCanonicalOrder(priority_list)
          /\ InCanonicalOrder(Remainder(final_buckets, priority_list))

C11_Witness ==
    /\ Prioritized /\ m = "Weak" /\ c = "Strong" /\ ch = "Multiple"
    /\ note = WeakNote
    /\ base_buckets = <<FB, PS>> /\ final_buckets = <<FB, PS>>

\* the categories of a fixed list that are among the base buckets, in the list's order
PresentOf(order) ==
    LET IsPresent(x) == InList(x, base_buckets)
    IN  SelectSeq(order, IsPresent)

(* C12: priority_list depends only on the challenge code and on which      *)
(* categories are in buckets: for Quality and Multiple it is empty and     *)
(* final_order is buckets unchanged; for Affordability it is               *)
(* [FA if present, TP if present]; for Supply it is                        *)
(* [RS if present, DI if present]; no other category is ever in it.        *)
C12_PriorityRule ==
    Prioritized =>
        /\ ch \in {"Quality", "Multiple"} =>
              (priority_list = <<>> /\ final_buckets = base_buckets)
        /\ ch = "Affordability" => priority_list = PresentOf(<<FA, TP>>)
        /\ ch = "Supply" => priority_list = PresentOf(<<RS, DI>>)
        /\ Range(priority_list) \subseteq {FA, TP, RS, DI}

C12_Witness ==
    /\ Prioritized /\ ch = "Quality" /\ a = "Strong" /\ m = "Hot"
    /\ priority_list = <<>>
    /\ final_buckets = <<PS, RS, DI>>

(* C13: the engines of the two application variants are the same function: *)
(* on the same four raw answers the appV3.py run and the appV4.py run      *)
(* either both halt on Unsure or both succeed, with the same normalized    *)
(* codes, base buckets, final_order, priority_list and note.               *)
C13_SameEngine ==
    (Submitted /\ v4.ran) =>
        /\ (screen = "warning") <=> (v4.screen = "warning")
        /\ (screen = "success") <=> (v4.screen = "success")
        /\ <<v4.a, v4.c, v4.m, v4.ch>> = <<a, c, m, ch>>
        /\ v4.base_buckets = base_buckets
        /\ v4.final_buckets = final_buckets
        /\ v4.priority_list = priority_list
        /\ v4.note = note

C13_Witness ==
    /\ screen = "success" /\ v4.ran /\ v4.screen = "success"
    /\ authority = <<"Limited">> /\ challenge = <<"Supply">>
    /\ final_buckets = <<DI>> /\ v4.final_buckets = <<DI>>

(* C14: in every recommendation the application produces, Regulatory       *)
(* Supply or Tenant Protections is in final_order only if Authority is     *)
(* Strong; with Authority Limited neither is recommended.  determine_buckets *)
(* is reached only with Authority Strong or Limited, where the guards      *)
(* `authority == "Strong"` and `not limited_authority` agree.              *)
C14_AuthorityGate ==
    /\ InList("determine_buckets", called) =>
          /\ a \in {"Strong", "Limited"}
          /\ (a = "Strong") <=> (a # "Limited")
    /\ screen = "success" =>
          /\ (InList(RS, final_buckets) \/ InList(TP, final_buckets)) => a = "Strong"
          /\ a = "Limited" => (~InList(RS, base_buckets) /\ ~InList(TP, base_buckets))

C14_Witness ==
    /\ screen = "success" /\ a = "Limited" /\ c = "Strong" /\ m = "Hot" /\ ch = "Multiple"
    /\ final_buckets = <<PS, DI, FA>>

GeneralCase == c # "Minimal" /\ m # "Weak"

(* C15: every output of determine_buckets holds exactly one of             *)
(* Foundation-Building and Development Incentives: Foundation-Building iff *)
(* Capacity is Minimal or Market is Weak, Development Incentives iff       *)
(* neither; so priority_list is empty when Capacity is Minimal or Market   *)
(* is Weak, and non-empty in the general case with Challenge Supply or     *)
(* Affordability.                                                          *)
C15_FoundationOrIncentives ==
    /\ Determined =>
          /\ InList(FB, base_buckets) <=> ~GeneralCase
          /\ InList(DI, base_buckets) <=> GeneralCase
    /\ Prioritized =>
          /\ ~GeneralCase => priority_list = <<>>
          /\ (GeneralCase /\ ch \in {"Supply", "Affordability"}) => priority_list # <<>>

C15_Witness ==
    /\ Prioritized /\ a = "Limited" /\ c = "Moderate" /\ m = "Stable" /\ ch = "Supply"
    /\ base_buckets = <<DI>> /\ priority_list = <<DI>>

====
